---- MODULE Spec2Model ----
(***************************************************************************)
(* Model of bokeh/session/html_file_session.py (class HTMLFileSession).    *)
(*                                                                         *)
(* Text is modelled as a sequence of tokens.  Resource-mode strings are    *)
(* sequences of single characters; path strings are sequences in which     *)
(* "/" and "." are tokens of their own and every other token is a run of   *)
(* ordinary characters; script text is a sequence in which "\n" and " "    *)
(* are tokens of their own.                                                *)
(***************************************************************************)
EXTENDS Integers, Sequences, FiniteSets, TLC

VARIABLES
    title,        \* self.title (lines 20, 40-41)
    filename,     \* self.filename (line 39)
    raw_js_objs,  \* self.raw_js_objs (line 45)
    next_id,      \* number of self.make_id() calls made so far (line 124)
    missing,      \* asset files absent from the static directory
    files,        \* the output files (lines 173-174)
    ret           \* the last call: its arguments and its outcome

vars == <<title, filename, raw_js_objs, next_id, missing, files, ret>>

(***************************************************************************)
(* Bounds of the model.                                                    *)
(***************************************************************************)
MaxContrib == 2
MaxId == 3
MaxCodeLen == 3

(***************************************************************************)
(* Python str primitives.                                                  *)
(***************************************************************************)
startswith(s, p) == Len(p) <= Len(s) /\ SubSeq(s, 1, Len(p)) = p

endswith(s, p) == Len(p) <= Len(s) /\ SubSeq(s, Len(s) - Len(p) + 1, Len(s)) = p

\* s[:-n]
DropLast(s, n) == SubSeq(s, 1, Len(s) - n)

\* 1-based position of the last occurrence of token c in s, 0 when absent
RFind(s, c) ==
    IF \E i \in 1..Len(s) : s[i] = c
    THEN CHOOSE i \in 1..Len(s) : s[i] = c /\ \A j \in (i+1)..Len(s) : s[j] # c
    ELSE 0

\* 1-based position of the first occurrence of token c in s, 0 when absent
Find(s, c) ==
    IF \E i \in 1..Len(s) : s[i] = c
    THEN CHOOSE i \in 1..Len(s) : s[i] = c /\ \A j \in 1..(i-1) : s[j] # c
    ELSE 0

RECURSIVE StrSplit(_, _)
RECURSIVE SplitAt(_, _, _)
\* s.split(sep), i the position of the first sep in s
SplitAt(s, sep, i) ==
    IF i = 0 THEN <<s>>
    ELSE <<SubSeq(s, 1, i - 1)>> \o StrSplit(SubSeq(s, i + 1, Len(s)), sep)

\* s.split(sep)
StrSplit(s, sep) == SplitAt(s, sep, Find(s, sep))

RECURSIVE StrJoin(_, _)
\* sep.join(parts)
StrJoin(parts, sep) ==
    IF parts = <<>> THEN <<>>
    ELSE IF Len(parts) = 1 THEN parts[1]
    ELSE parts[1] \o <<sep>> \o StrJoin(Tail(parts), sep)

\* [ x for x in parts if x ]
NonEmpty(parts) == SelectSeq(parts, LAMBDA x : x # <<>>)

\* n copies of token c
Rep(c, n) == [i \in 1..n |-> c]

(***************************************************************************)
(* os.path (posixpath) primitives.                                         *)
(***************************************************************************)
DOTDOT == <<".", ".">>

CURDIR == <<".">>

\* os.getcwd()
getcwd == <<"/", "home", "/", "u">>

isabs(p) == startswith(p, <<"/">>)

\* os.path.join(a, b)
join(a, b) ==
    IF startswith(b, <<"/">>) THEN b
    ELSE IF a = <<>> \/ endswith(a, <<"/">>) THEN a \o b
    ELSE a \o <<"/">> \o b

NormStep(new_comps, comp, initial_slashes) ==
    IF comp = <<>> \/ comp = CURDIR THEN new_comps
    ELSE IF \/ comp # DOTDOT
            \/ (initial_slashes = 0 /\ new_comps = <<>>)
            \/ (new_comps # <<>> /\ new_comps[Len(new_comps)] = DOTDOT)
         THEN Append(new_comps, comp)
    ELSE IF new_comps # <<>> THEN DropLast(new_comps, 1)
    ELSE new_comps

RECURSIVE NormComps(_, _, _)
NormComps(comps, new_comps, initial_slashes) ==
    IF comps = <<>> THEN new_comps
    ELSE NormComps(Tail(comps), NormStep(new_comps, Head(comps), initial_slashes),
                   initial_slashes)

\* normpath: the number of leading slashes kept
InitialSlashes(path) ==
    IF ~startswith(path, <<"/">>) THEN 0
    ELSE IF startswith(path, <<"/", "/">>) /\ ~startswith(path, <<"/", "/", "/">>)
         THEN 2 ELSE 1

\* path or '.'
OrCurdir(path) == IF path = <<>> THEN CURDIR ELSE path

NormFrom(path, initial_slashes) ==
    OrCurdir(Rep("/", initial_slashes)
             \o StrJoin(NormComps(StrSplit(path, "/"), <<>>, initial_slashes), "/"))

\* os.path.normpath(path)
normpath(path) ==
    IF path = <<>> THEN CURDIR ELSE NormFrom(path, InitialSlashes(path))

\* os.path.abspath(path)
abspath(path) == normpath(IF isabs(path) THEN path ELSE join(getcwd, path))

\* head.rstrip('/') unless head is all slashes
RStripSlashes(head) ==
    IF head # <<>> /\ head # Rep("/", Len(head))
    THEN SubSeq(head, 1, CHOOSE k \in 1..Len(head) :
                    head[k] # "/" /\ \A j \in (k+1)..Len(head) : head[j] = "/")
    ELSE head

SplitAtSlash(p, i) == <<RStripSlashes(SubSeq(p, 1, i)), SubSeq(p, i + 1, Len(p))>>

\* os.path.split(p)
split(p) == SplitAtSlash(p, RFind(p, "/"))

SplitextAt(p, sepIndex, dotIndex) ==
    IF dotIndex > sepIndex /\ \E k \in (sepIndex + 1)..(dotIndex - 1) : p[k] # "."
    THEN <<SubSeq(p, 1, dotIndex - 1), SubSeq(p, dotIndex, Len(p))>>
    ELSE <<p, <<>>>>

\* os.path.splitext(p)
splitext(p) == SplitextAt(p, RFind(p, "/"), RFind(p, "."))

\* length of the common prefix of two component lists
CommonLen(a, b) ==
    CHOOSE i \in 0..Len(a) :
        /\ i <= Len(b)
        /\ \A j \in 1..i : a[j] = b[j]
        /\ (i < Len(a) /\ i < Len(b)) => a[i + 1] # b[i + 1]

RelList(start_list, path_list, i) ==
    [k \in 1..(Len(start_list) - i) |-> DOTDOT] \o SubSeq(path_list, i + 1, Len(path_list))

RelJoin(rel_list) == IF rel_list = <<>> THEN CURDIR ELSE StrJoin(rel_list, "/")

RelFrom(start_list, path_list) ==
    RelJoin(RelList(start_list, path_list, CommonLen(start_list, path_list)))

\* os.path.relpath(path, start), path non-empty
relpath(path, start) ==
    RelFrom(NonEmpty(StrSplit(abspath(start), "/")),
            NonEmpty(StrSplit(abspath(path), "/")))

(***************************************************************************)
(* Class attributes of HTMLFileSession.                                    *)
(***************************************************************************)
DefaultTitle == "Bokeh Plot"

DefaultFilename == <<"bokehplot", ".", "html">>

js_files == << <<"js", "/", "bokeh", ".", "js">> >>

css_files == << <<"css", "/", "bokeh", ".", "css">> >>

js_files_dev == << <<"js", "/", "vendor", "/", "requirejs", "/", "require", ".", "js">>,
                   <<"js", "/", "config", ".", "js">> >>

css_files_dev == << <<"js", "/", "vendor", "/", "bootstrap", "/",
                      "bootstrap-bokeh-2", ".", "0", ".", "4", ".", "css">>,
                    <<"css", "/", "continuum", ".", "css">>,
                    <<"css", "/", "main", ".", "css">> >>

\* __file__ of the module
ModuleFile == <<"/", "pkg", "/", "bokeh", "/", "session", "/", "html_file_session", ".", "py">>

rootdir == abspath(split(ModuleFile)[1])

\* BaseHTMLSession.server_static_dir, a fixed static-assets root
server_static_dir == <<"/", "pkg", "/", "bokeh", "/", "session", "/", ".", ".", "/",
                       "server", "/", "static">>

(***************************************************************************)
(* Resource-mode strings, one token per character.                         *)
(***************************************************************************)
S_inline == <<"i", "n", "l", "i", "n", "e">>

S_relative == <<"r", "e", "l", "a", "t", "i", "v", "e">>

S_absolute == <<"a", "b", "s", "o", "l", "u", "t", "e">>

S_dev == <<"-", "d", "e", "v">>

S_bogus == <<"b", "o", "g", "u", "s">>

\* the list literal of line 68
ResourceLiterals == <<S_inline, S_relative, S_relative \o S_dev,
                      S_absolute, S_absolute \o S_dev>>

(***************************************************************************)
(* Python values for the rootdir argument: None or a str.                  *)
(***************************************************************************)
None == [isNone |-> TRUE, s |-> <<>>]

Str(s) == [isNone |-> FALSE, s |-> s]

\* truth value of an argument that is None or a str
Truthy(v) == ~v.isNone /\ v.s # <<>>

(***************************************************************************)
(* Path methods.                                                           *)
(***************************************************************************)
static_path(path) == normpath(join(server_static_dir, path))

MinJoin(re) == re[1] \o <<".", "min">> \o re[2]

\* root + ".min" + ext for (root, ext) = splitext(file)
MinName(file) == MinJoin(splitext(file))

MinNames(files_) == [i \in 1..Len(files_) |-> MinName(files_[i])]

StaticPaths(files_) == [i \in 1..Len(files_) |-> static_path(files_[i])]

_file_paths(files_, minified) ==
    StaticPaths(IF minified THEN MinNames(files_) ELSE files_)

JsPathsMinDev(minified, dev) ==
    _file_paths(IF dev THEN js_files_dev ELSE js_files, minified)

js_paths(minified, dev) ==
    _file_paths(IF dev THEN js_files_dev ELSE js_files,
                IF dev THEN FALSE ELSE minified)

css_paths(minified, dev) ==
    _file_paths(IF dev THEN css_files_dev ELSE css_files,
                IF dev THEN FALSE ELSE minified)

(***************************************************************************)
(* BaseHTMLSession._inline_files: reads each path as text, in order; a     *)
(* missing file raises IOError and ends the reading.                       *)
(***************************************************************************)
FileText(path) == <<"/*">> \o path \o <<"*/">>

InlineUpTo(paths, bad) ==
    IF bad = {}
    THEN [raised |-> "None",
          value |-> [i \in 1..Len(paths) |-> FileText(paths[i])],
          reads |-> paths]
    ELSE [raised |-> "IOError",
          value |-> <<>>,
          reads |-> SubSeq(paths, 1, CHOOSE i \in bad : \A j \in bad : i <= j)]

_inline_files(paths, fs_missing) ==
    InlineUpTo(paths, {i \in 1..Len(paths) : paths[i] \in fs_missing})

(***************************************************************************)
(* The script wrappers of get_resources (lines 101-109).                   *)
(***************************************************************************)
PadN == 4

PadLines(lines, n) ==
    StrJoin([i \in 1..Len(lines) |-> Rep(" ", n) \o lines[i]], "\n")

pad(text, n) == PadLines(StrSplit(text, "\n"), n)

ReadyOpen == "$(function() {"

RequireOpen == "require([\"jquery\", \"main\"], function($, Bokeh) {"

CloseBlock == "});"

wrapper(code) == <<ReadyOpen, "\n">> \o pad(code, PadN) \o <<"\n", CloseBlock>>

dev_wrapper_flat(code) == <<RequireOpen, "\n">> \o pad(code, PadN) \o <<"\n", CloseBlock>>

dev_wrapper(code) == <<RequireOpen, "\n">> \o pad(wrapper(code), PadN) \o <<"\n", CloseBlock>>

\* the function object bound to js_wrapper: its closure is the dev flag
JsWrapper(dev) == [dev |-> dev]

\* js_wrapper(code)
Call(js_wrapper, code) == IF js_wrapper.dev THEN dev_wrapper(code) ELSE wrapper(code)

\* 'require.config({ baseUrl: "%s" });' % base_url
RequireConfig(base_url) == <<"require.config({ baseUrl: \"">> \o base_url \o <<"\" });">>

(***************************************************************************)
(* HTMLFileSession.get_resources.  The result is a record: raised is the   *)
(* exception that left the call ("None" for a normal return), value the    *)
(* returned bundle, reads the asset files opened, in order.                *)
(***************************************************************************)
NoBundle == [raw_js |-> <<>>, js_files |-> <<>>, raw_css |-> <<>>, css_files |-> <<>>,
             js_wrapper |-> JsWrapper(FALSE)]

Raise(exc, reads) == [raised |-> exc, value |-> NoBundle, reads |-> reads]

\* lines 68-69
BadResourcesBase(resources) ==
    LET base == IF endswith(resources, S_dev) THEN DropLast(resources, 4) ELSE resources
    IN  base \notin {S_inline, S_relative, S_absolute}

BadResources(resources) ==
    \A i \in 1..Len(ResourceLiterals) : ResourceLiterals[i] # resources

\* lines 71-72
BadRootdirExact(resources, rootdir_) ==
    resources # S_relative /\ Truthy(rootdir_)

BadRootdir(resources, rootdir_) ==
    ~startswith(resources, S_relative) /\ Truthy(rootdir_)

\* line 89: rootdir or self.rootdir
RelRootIgnored(rootdir_) == rootdir

RelRoot(rootdir_) == IF Truthy(rootdir_) THEN rootdir_.s ELSE rootdir

\* lines 74-95 for one asset class: the file references of the mode
RefPathsElse(resources, dev, paths, rd) ==
    IF resources = S_relative THEN [i \in 1..Len(paths) |-> relpath(paths[i], rd)]
    ELSE paths

RefPaths(resources, dev, paths, rd) ==
    IF resources = S_inline /\ ~dev THEN <<>>
    ELSE IF resources = S_relative THEN [i \in 1..Len(paths) |-> relpath(paths[i], rd)]
    ELSE IF resources = S_absolute THEN paths
    ELSE <<>>

\* lines 97-99 and 111: the returned bundle
Bundle(raw_js, js_files_, raw_css, css_files_, dev, base_url) ==
    [raised |-> "None",
     value |-> [raw_js |-> IF dev THEN Append(raw_js, RequireConfig(base_url)) ELSE raw_js,
                js_files |-> js_files_,
                raw_css |-> raw_css,
                css_files |-> css_files_,
                js_wrapper |-> JsWrapper(dev)],
     reads |-> <<>>]

\* lines 86-87: the css files are read once the js files have been
InlineBundle(in_js, in_css, js_files_, css_files_, dev, base_url) ==
    IF in_js.raised # "None" THEN Raise(in_js.raised, in_js.reads)
    ELSE IF in_css.raised # "None" THEN Raise(in_css.raised, in_js.reads \o in_css.reads)
    ELSE [Bundle(in_js.value, js_files_, in_css.value, css_files_, dev, base_url)
             EXCEPT !.reads = in_js.reads \o in_css.reads]

\* lines 85-111
BundleOf(resources, dev, rd, jp, cp, base_url, fs_missing) ==
    IF resources = S_inline /\ ~dev
    THEN InlineBundle(_inline_files(jp, fs_missing), _inline_files(cp, fs_missing),
                      RefPaths(resources, dev, jp, rd), RefPaths(resources, dev, cp, rd),
                      dev, base_url)
    ELSE Bundle(<<>>, RefPaths(resources, dev, jp, rd),
                <<>>, RefPaths(resources, dev, cp, rd), dev,
                IF resources = S_relative THEN relpath(base_url, rd) ELSE base_url)

\* lines 77-79
StripDev(resources) ==
    IF endswith(resources, S_dev) THEN DropLast(resources, 4) ELSE resources

\* lines 81-83
BundleFor(resources, dev, rd, fs_missing) ==
    BundleOf(resources, dev, rd, js_paths(TRUE, dev), css_paths(TRUE, dev),
             static_path(<<"js">>), fs_missing)

\* lines 74-111, entered once both checks have passed
BuildBundle(resources, rootdir_, fs_missing) ==
    BundleFor(StripDev(resources), endswith(resources, S_dev), RelRoot(rootdir_),
              fs_missing)

get_resources(resources, rootdir_, fs_missing) ==
    IF BadResources(resources) THEN Raise("ValueError", <<>>)
    ELSE IF BadRootdir(resources, rootdir_) THEN Raise("ValueError", <<>>)
    ELSE BuildBundle(resources, rootdir_, fs_missing)

(***************************************************************************)
(* Arguments the calls are made with.                                      *)
(***************************************************************************)
Modes == {S_inline, S_relative, S_relative \o S_dev, S_absolute, S_absolute \o S_dev,
          S_inline \o S_dev, S_bogus, <<>>}

Overrides == {
    <<"/">>,
    <<"/", "a">>,
    <<"/", "a", "/", "b">>,
    <<"/", "a", "/", ".", ".", "/", "b", "/">>,
    <<"/", "pkg">>,
    <<"/", "pkg", "/", "bokeh">>,
    <<"/", "pkg", "/", "bokeh", "/", "session">>,
    <<"/", "pkg", "/", "bokeh", "/", "server", "/", "static">>,
    <<"/", "pkg", "/", "bokeh", "/", "server", "/", "static", "/", "js">>,
    <<"out">>,
    <<".", ".", "/", "x">> }

Rootdirs == {None, Str(<<>>)} \cup {Str(o) : o \in Overrides}

\* asset files that may be absent from the static directory
MissingChoices == {{}, {js_paths(TRUE, FALSE)[1]}, {css_paths(TRUE, FALSE)[1]}}

Titles == {DefaultTitle, "T"}

(***************************************************************************)
(* The rendered document and the file system.                              *)
(***************************************************************************)
EmptyDoc(t) == [template |-> "base.html", js_snippets |-> <<>>, html_snippets |-> <<>>,
                rawjs |-> <<>>, rawcss |-> <<>>, jsfiles |-> <<>>, cssfiles |-> <<>>,
                title |-> t]

\* s.encode("utf-8")
Encode(text) == [encoding |-> "utf-8", text |-> text]

Absent == [exists |-> FALSE, bytes |-> Encode(EmptyDoc(""))]

OldFile == [exists |-> TRUE, bytes |-> Encode(EmptyDoc("previous contents"))]

OtherFilename == <<"other", ".", "html">>

OutNames == {DefaultFilename, OtherFilename}

(***************************************************************************)
(* Initial state: a session right after __init__ (lines 38-45).            *)
(***************************************************************************)
Init ==
    /\ title \in Titles
    /\ filename = DefaultFilename
    /\ raw_js_objs = <<>>
    /\ next_id = 0
    /\ missing \in MissingChoices
    /\ files = [n \in OutNames |-> IF n = DefaultFilename THEN OldFile ELSE Absent]
    /\ ret = [op |-> "init"]

(***************************************************************************)
(* Calls of the resource methods.                                          *)
(***************************************************************************)
GetResourcesRet(resources, rootdir_, r) ==
    [op |-> "get_resources", resources |-> resources, rootdir |-> rootdir_,
     raised |-> r.raised, value |-> r.value, reads |-> r.reads]

GetResources(resources, rootdir_) ==
    /\ ret' = GetResourcesRet(resources, rootdir_,
                              get_resources(resources, rootdir_, missing))
    /\ UNCHANGED <<title, filename, raw_js_objs, next_id, missing, files>>

JsPaths(minified, dev) ==
    /\ ret' = [op |-> "js_paths", minified |-> minified, dev |-> dev,
               value |-> js_paths(minified, dev)]
    /\ UNCHANGED <<title, filename, raw_js_objs, next_id, missing, files>>

CssPaths(minified, dev) ==
    /\ ret' = [op |-> "css_paths", minified |-> minified, dev |-> dev,
               value |-> css_paths(minified, dev)]
    /\ UNCHANGED <<title, filename, raw_js_objs, next_id, missing, files>>

NextRes ==
    \/ \E m \in Modes, r \in Rootdirs : GetResources(m, r)
    \/ \E minified \in BOOLEAN, dev \in BOOLEAN : JsPaths(minified, dev)
    \/ \E minified \in BOOLEAN, dev \in BOOLEAN : CssPaths(minified, dev)

InitRes == Init /\ title = DefaultTitle

SpecRes == InitRes /\ [][NextRes]_vars

(***************************************************************************)
(* Collaborators of the session that live in BaseHTMLSession and in the    *)
(* templates: identifiers, references, serialization, template rendering,  *)
(* and the raw-script contributors.                                        *)
(***************************************************************************)
IdTable == <<"id-0", "id-1", "id-2", "id-3", "id-4", "id-5">>

\* self.make_id(): a fresh identifier on every call, n counts the calls so far
make_id(n) == IdTable[n + 1]

\* self.get_ref(self.plotcontext)
pc_ref == [id |-> "plotcontext-id", type |-> "PlotContext"]

\* self.serialize_models()
serialize_models == "{all models}"

\* self._load_template(self.js_template).render(...)
RenderJs(elementid, modelid, modeltype, all_models) ==
    <<"plots.js", elementid, "\n", modelid, modeltype, "\n", all_models>>

\* self._load_template(self.div_template).render(elementid=...)
RenderDiv(elementid) == <<"plots.html", elementid>>

\* self._load_template(self.html_template).render(...)
RenderHtml(js_snippets, html_snippets, rawjs, rawcss, jsfiles, cssfiles, t) ==
    [template |-> "base.html", js_snippets |-> js_snippets,
     html_snippets |-> html_snippets, rawjs |-> rawjs, rawcss |-> rawcss,
     jsfiles |-> jsfiles, cssfiles |-> cssfiles, title |-> t]

Contributors == {"c1", "c2"}

\* o.get_raw_js()
get_raw_js(o) == <<"raw", o>>

(***************************************************************************)
(* HTMLFileSession.raw_js_snippets, dumps, save and view.                  *)
(***************************************************************************)
\* line 65
AppendObj(objs, obj) == Append(objs, obj)

\* line 124
ElementIdReused(n) == make_id(0)

ElementId(n) == make_id(n)

\* line 137
HtmlSnippetsReversed(plot_div, objs) ==
    <<plot_div>> \o [i \in 1..Len(objs) |-> get_raw_js(objs[Len(objs) + 1 - i])]

HtmlSnippets(plot_div, objs) ==
    <<plot_div>> \o [i \in 1..Len(objs) |-> get_raw_js(objs[i])]

\* lines 126-140
Document(elementid, b, t, objs) ==
    RenderHtml(<<Call(b.js_wrapper,
                      RenderJs(elementid, pc_ref.id, pc_ref.type, serialize_models))>>,
               HtmlSnippets(RenderDiv(elementid), objs),
               b.raw_js, b.raw_css, b.js_files, b.css_files, t)

\* r the outcome of get_resources (line 132)
DumpsWith(elementid, r, t, objs) ==
    [raised |-> r.raised,
     elementid |-> elementid,
     reads |-> r.reads,
     value |-> IF r.raised # "None" THEN EmptyDoc("")
               ELSE Document(elementid, r.value, t, objs)]

\* lines 123-142: the id counter n, the title t, the contributors objs and
\* the missing asset files are the state the call reads
dumps(resources, rootdir_, n, t, objs, fs_missing) ==
    DumpsWith(ElementId(n), get_resources(resources, rootdir_, fs_missing), t, objs)

\* lines 171-174: the file system after save, d the outcome of dumps
SaveFilesOpenFirst(fs, fname, self_filename, d) ==
    [fs EXCEPT ![IF fname.isNone THEN self_filename ELSE fname.s] =
        [exists |-> TRUE,
         bytes |-> Encode(IF d.raised = "None" THEN d.value ELSE EmptyDoc(""))]]

SaveFiles(fs, fname, self_filename, d) ==
    IF d.raised # "None" THEN fs
    ELSE [fs EXCEPT ![IF fname.isNone THEN self_filename ELSE fname.s] =
             [exists |-> TRUE, bytes |-> Encode(d.value)]]

\* line 186
new_map == [k \in {"False", "window", "tab"} |->
               IF k = "False" THEN 0 ELSE IF k = "window" THEN 1 ELSE 2]

\* lines 189-195: the exception that leaves view, given what the import of
\* webbrowser and webbrowser.open raise
view_raised_lookup_outside(new, import_exc, open_exc) ==
    IF new \notin DOMAIN new_map THEN "KeyError"
    ELSE IF import_exc # "None" THEN "None"
    ELSE IF open_exc \in {"SystemExit", "KeyboardInterrupt"} THEN open_exc
    ELSE "None"

\* lines 192-195
Propagated(exc) == IF exc \in {"SystemExit", "KeyboardInterrupt"} THEN exc ELSE "None"

view_raised(new, import_exc, open_exc) ==
    Propagated(IF import_exc # "None" THEN import_exc
               ELSE IF new \notin DOMAIN new_map THEN "KeyError"
               ELSE open_exc)

\* lines 187-191: the call webbrowser.open receives, when it is reached
view_opened(new, import_exc, autoraise, self_filename) ==
    IF import_exc # "None" \/ new \notin DOMAIN new_map
    THEN [called |-> FALSE, url |-> <<>>, new |-> 0, autoraise |-> FALSE]
    ELSE [called |-> TRUE, url |-> <<"file://">> \o abspath(self_filename),
          new |-> new_map[new], autoraise |-> autoraise]

\* the (resources, rootdir) pairs dumps and save are called with
SessionArgs == {
    <<S_inline, None>>,
    <<S_relative, None>>,
    <<S_relative \o S_dev, Str(<<"/", "a", "/", "b">>)>>,
    <<S_absolute, Str(<<>>)>>,
    <<S_absolute, Str(<<"/", "a", "/", "b">>)>>,
    <<S_inline \o S_dev, None>>,
    <<S_bogus, None>> }

NewValues == {"False", "window", "tab", "None", "bogus"}

ImportOutcomes == {"None", "ImportError"}

OpenOutcomes == {"None", "Error", "SystemExit", "KeyboardInterrupt"}

RawJsSnippets(obj) ==
    /\ Len(raw_js_objs) < MaxContrib
    /\ raw_js_objs' = AppendObj(raw_js_objs, obj)
    /\ ret' = [op |-> "raw_js_snippets", obj |-> obj]
    /\ UNCHANGED <<title, filename, next_id, missing, files>>

DumpsRet(resources, rootdir_, d) ==
    [op |-> "dumps", resources |-> resources, rootdir |-> rootdir_,
     raised |-> d.raised, elementid |-> d.elementid, reads |-> d.reads,
     value |-> d.value]

Dumps(resources, rootdir_) ==
    /\ next_id < MaxId
    /\ ret' = DumpsRet(resources, rootdir_,
                       dumps(resources, rootdir_, next_id, title, raw_js_objs, missing))
    /\ next_id' = next_id + 1
    /\ UNCHANGED <<title, filename, raw_js_objs, missing, files>>

\* d the outcome of dumps (line 170)
SaveWith(fname, resources, rootdir_, d) ==
    /\ files' = SaveFiles(files, fname, filename, d)
    /\ ret' = [op |-> "save", filename |-> fname, resources |-> resources,
               rootdir |-> rootdir_, raised |-> d.raised,
               elementid |-> d.elementid, reads |-> d.reads]

Save(fname, resources, rootdir_) ==
    /\ next_id < MaxId
    /\ SaveWith(fname, resources, rootdir_,
                dumps(resources, rootdir_, next_id, title, raw_js_objs, missing))
    /\ next_id' = next_id + 1
    /\ UNCHANGED <<title, filename, raw_js_objs, missing>>

View(new, autoraise, import_exc, open_exc) ==
    /\ ret' = [op |-> "view", new |-> new, import_exc |-> import_exc,
               open_exc |-> open_exc,
               raised |-> view_raised(new, import_exc, open_exc),
               opened |-> view_opened(new, import_exc, autoraise, filename)]
    /\ UNCHANGED <<title, filename, raw_js_objs, next_id, missing, files>>

NextRender ==
    \/ \E obj \in Contributors : RawJsSnippets(obj)
    \/ \E a \in SessionArgs : Dumps(a[1], a[2])

SpecRender == Init /\ [][NextRender]_vars

NextSave ==
    \/ \E a \in SessionArgs : Dumps(a[1], a[2])
    \/ \E a \in SessionArgs, f \in {None, Str(OtherFilename)} : Save(f, a[1], a[2])

SpecSave == Init /\ [][NextSave]_vars

NextView ==
    \/ \E obj \in Contributors : RawJsSnippets(obj)
    \/ \E new \in NewValues, autoraise \in BOOLEAN,
          i \in ImportOutcomes, o \in OpenOutcomes : View(new, autoraise, i, o)

SpecView == Init /\ [][NextView]_vars

\* every call of every method; SpecRes, SpecRender, SpecSave and SpecView
\* restrict it to the methods a property is about
Next ==
    \/ \E m \in Modes, r \in Rootdirs : GetResources(m, r)
    \/ \E minified \in BOOLEAN, dev \in BOOLEAN : JsPaths(minified, dev)
    \/ \E minified \in BOOLEAN, dev \in BOOLEAN : CssPaths(minified, dev)
    \/ \E obj \in Contributors : RawJsSnippets(obj)
    \/ \E a \in SessionArgs : Dumps(a[1], a[2])
    \/ \E a \in SessionArgs, f \in {None, Str(OtherFilename)} : Save(f, a[1], a[2])
    \/ \E new \in NewValues, autoraise \in BOOLEAN,
          i \in ImportOutcomes, o \in OpenOutcomes : View(new, autoraise, i, o)

Spec == Init /\ [][Next]_vars

(***************************************************************************)
(* Properties of get_resources, js_paths and css_paths (SpecRes).          *)
(***************************************************************************)
Returned == ret.op = "get_resources" /\ ret.raised = "None"

DevModes == {S_relative \o S_dev, S_absolute \o S_dev}

FiveModes == {S_inline, S_relative, S_absolute} \cup DevModes

StaticRoot == <<"/", "pkg", "/", "bokeh", "/", "server", "/", "static">>

ClassRoot == <<"/", "pkg", "/", "bokeh", "/", "session">>

BootstrapHead == "require.config({ baseUrl: \""

BootstrapTail == "\" });"

IsBootstrap(text) ==
    Len(text) >= 2 /\ text[1] = BootstrapHead /\ text[Len(text)] = BootstrapTail

\* C1: get_resources accepts exactly the five mode literals: any other mode
\* raises ValueError and returns no bundle whatever the rootdir, and each of
\* the five called without a rootdir raises no ValueError.
C1_ExactlyFiveModes ==
    ret.op = "get_resources" =>
        /\ ret.resources \notin FiveModes =>
               ret.raised = "ValueError" /\ ret.value = NoBundle
        /\ (ret.resources \in FiveModes /\ ret.rootdir.isNone) =>
               ret.raised # "ValueError"

C1_Witness ==
    /\ ret.op = "get_resources"
    /\ ret.resources = S_inline \o S_dev
    /\ ret.rootdir.isNone
    /\ ret.raised = "ValueError"

\* C2 as stated: with 'inline', 'absolute' or 'absolute-dev', every supplied
\* rootdir (any value other than None) raises ValueError.
C2_AnySuppliedOverrideRejected ==
    (/\ ret.op = "get_resources"
     /\ ret.resources \in {S_inline, S_absolute, S_absolute \o S_dev}
     /\ ~ret.rootdir.isNone)
    => ret.raised = "ValueError"

\* C2 amended: with 'inline', 'absolute' or 'absolute-dev', every non-empty
\* rootdir raises ValueError, while an empty one is treated as not supplied;
\* with 'relative' and 'relative-dev' any rootdir is accepted.
C2_NonEmptyOverrideRejected ==
    ret.op = "get_resources" =>
        /\ (/\ ret.resources \in {S_inline, S_absolute, S_absolute \o S_dev}
            /\ ~ret.rootdir.isNone
            /\ ret.rootdir.s # <<>>) => ret.raised = "ValueError"
        /\ (/\ ret.resources \in {S_inline, S_absolute, S_absolute \o S_dev}
            /\ ~ret.rootdir.isNone
            /\ ret.rootdir.s = <<>>) => ret.raised # "ValueError"
        /\ ret.resources \in {S_relative, S_relative \o S_dev} =>
               ret.raised # "ValueError"

C2_Witness ==
    /\ ret.op = "get_resources"
    /\ ret.resources = S_absolute \o S_dev
    /\ ret.rootdir = Str(<<"/", "a", "/", "b">>)
    /\ ret.raised = "ValueError"

\* C3 as stated: in every returned bundle the inline list and the reference
\* list of an asset class are never both non-empty.
C3_InlineAndRefsExclusive ==
    Returned =>
        /\ ~(ret.value.raw_js # <<>> /\ ret.value.js_files # <<>>)
        /\ ~(ret.value.raw_css # <<>> /\ ret.value.css_files # <<>>)

\* C3 amended: the inline-CSS and CSS reference lists are never both
\* non-empty; the inline-JS and JS reference lists are both non-empty exactly
\* in the '-dev' modes, where the inline-JS list holds the loader-bootstrap
\* statement and nothing else.
C3_ExclusiveExceptBootstrap ==
    Returned =>
        /\ ~(ret.value.raw_css # <<>> /\ ret.value.css_files # <<>>)
        /\ (ret.value.raw_js # <<>> /\ ret.value.js_files # <<>>)
               <=> ret.resources \in DevModes
        /\ ret.resources \in DevModes =>
               Len(ret.value.raw_js) = 1 /\ IsBootstrap(ret.value.raw_js[1])

C3_Witness ==
    /\ Returned
    /\ ret.resources = S_relative \o S_dev
    /\ ret.value.raw_js # <<>>
    /\ ret.value.js_files # <<>>

\* every text of at most MaxCodeLen tokens over a word and the line break
SampleCodes ==
    UNION {[1..n -> {"x", "\n"}] : n \in 0..MaxCodeLen}

Indent4 == <<" ", " ", " ", " ">>

ReadyLines(code) ==
    LET lines == StrSplit(code, "\n")
    IN  << <<"$(function() {">> >>
        \o [i \in 1..Len(lines) |-> Indent4 \o lines[i]]
        \o << <<"});">> >>

LoaderLines(code) ==
    LET inner == ReadyLines(code)
    IN  << <<"require([\"jquery\", \"main\"], function($, Bokeh) {">> >>
        \o [i \in 1..Len(inner) |-> Indent4 \o inner[i]]
        \o << <<"});">> >>

\* the base URL b names the static js directory, as seen from directory base
NamesStaticJs(b, base) ==
    normpath(join(base, b)) = StaticRoot \o <<"/", "js">>

\* the directory the paths of a 'relative' call are relative to
BaseOf(rootdir_) ==
    IF rootdir_.isNone \/ rootdir_.s = <<>> THEN ClassRoot ELSE abspath(rootdir_.s)

\* C5: in 'relative-dev' and 'absolute-dev' the inline-JS list is exactly one
\* require.config statement naming the static base URL (relativized in
\* 'relative-dev') and the wrapper is the module-loader call around the
\* page-ready handler; in the other modes there is no bootstrap statement and
\* the wrapper is the page-ready handler around the code padded by 4 spaces.
C5_DevFormExactlyForDevModes ==
    Returned =>
        IF ret.resources \in DevModes
        THEN /\ Len(ret.value.raw_js) = 1
             /\ IsBootstrap(ret.value.raw_js[1])
             /\ LET b == SubSeq(ret.value.raw_js[1], 2, Len(ret.value.raw_js[1]) - 1)
                IN  IF ret.resources = S_absolute \o S_dev
                    THEN b = StaticRoot \o <<"/", "js">>
                    ELSE ~isabs(b) /\ NamesStaticJs(b, BaseOf(ret.rootdir))
             /\ \A code \in SampleCodes :
                    StrSplit(Call(ret.value.js_wrapper, code), "\n") = LoaderLines(code)
        ELSE /\ \A i \in 1..Len(ret.value.raw_js) : ~IsBootstrap(ret.value.raw_js[i])
             /\ \A code \in SampleCodes :
                    StrSplit(Call(ret.value.js_wrapper, code), "\n") = ReadyLines(code)

C5_Witness ==
    /\ Returned
    /\ ret.resources = S_relative \o S_dev
    /\ ~ret.rootdir.isNone
    /\ ret.rootdir.s # <<>>
    /\ Len(ret.value.raw_js) = 1
    /\ ret.value.js_wrapper.dev

\* q is p with ".min" inserted immediately before p's extension
MinInserted(p, q) ==
    \E k \in 1..Len(p) :
        /\ p[k] = "."
        /\ \A j \in (k+1)..Len(p) : p[j] # "." /\ p[j] # "/"
        /\ q = SubSeq(p, 1, k - 1) \o <<".", "min">> \o SubSeq(p, k, Len(p))

UnderStatic(name) == StaticRoot \o <<"/">> \o name

\* C6: js_paths and css_paths with dev=True return the developer manifest in
\* order with no name rewritten, whatever the minified flag; with dev=False
\* they return the production manifest in order, every name rewritten with
\* ".min" before its extension exactly when minified is true.
C6_MinifyOnlyInProduction ==
    ret.op \in {"js_paths", "css_paths"} =>
        LET prod == IF ret.op = "js_paths" THEN js_files ELSE css_files
            devl == IF ret.op = "js_paths" THEN js_files_dev ELSE css_files_dev
        IN  IF ret.dev
            THEN ret.value = [i \in 1..Len(devl) |-> UnderStatic(devl[i])]
            ELSE IF ret.minified
            THEN /\ Len(ret.value) = Len(prod)
                 /\ \A i \in 1..Len(prod) : MinInserted(UnderStatic(prod[i]), ret.value[i])
            ELSE ret.value = [i \in 1..Len(prod) |-> UnderStatic(prod[i])]

C6_Witness ==
    ret.op = "js_paths" /\ ret.dev /\ ret.minified /\ Len(ret.value) = 2

RelativeModes == {S_relative, S_relative \o S_dev}

\* the path that reference f names when read from directory base
Resolve(base, f) == normpath(join(base, f))

\* the resolved asset paths a mode selects, from the manifests
SelectedJs(dev) ==
    IF dev THEN [i \in 1..Len(js_files_dev) |-> UnderStatic(js_files_dev[i])]
    ELSE [i \in 1..Len(js_files) |->
             UnderStatic(<<"js", "/", "bokeh", ".", "min", ".", "js">>)]

SelectedCss(dev) ==
    IF dev THEN [i \in 1..Len(css_files_dev) |-> UnderStatic(css_files_dev[i])]
    ELSE [i \in 1..Len(css_files) |->
             UnderStatic(<<"css", "/", "bokeh", ".", "min", ".", "css">>)]

\* C7 as stated: two 'relative' (or two 'relative-dev') calls that differ in
\* the rootdir return reference lists of the same length that name, position
\* by position, the same resolved asset paths, and the same inline lists and
\* wrapper kind.
C7_OverrideChangesOnlyRefs ==
    [][(/\ ret.op = "get_resources" /\ ret'.op = "get_resources"
        /\ ret.raised = "None" /\ ret'.raised = "None"
        /\ Truthy(ret.rootdir) /\ Truthy(ret'.rootdir)
        /\ ret.resources \in RelativeModes
        /\ ret'.resources = ret.resources)
       => /\ Len(ret'.value.js_files) = Len(ret.value.js_files)
          /\ Len(ret'.value.css_files) = Len(ret.value.css_files)
          /\ \A i \in 1..Len(ret.value.js_files) :
                 Resolve(BaseOf(ret'.rootdir), ret'.value.js_files[i])
                     = Resolve(BaseOf(ret.rootdir), ret.value.js_files[i])
          /\ \A i \in 1..Len(ret.value.css_files) :
                 Resolve(BaseOf(ret'.rootdir), ret'.value.css_files[i])
                     = Resolve(BaseOf(ret.rootdir), ret.value.css_files[i])
          /\ ret'.value.raw_js = ret.value.raw_js
          /\ ret'.value.raw_css = ret.value.raw_css
          /\ ret'.value.js_wrapper = ret.value.js_wrapper]_vars

\* C7 amended: in 'relative' and 'relative-dev' the references are relative
\* to the class rootdir when no rootdir is given and to the given rootdir
\* otherwise; whatever the rootdir, the reference lists name, position by
\* position, the resolved paths of the selected assets, the inline-CSS list
\* is empty, the wrapper kind follows the mode and the inline-JS list has one
\* entry in 'relative-dev' and none in 'relative'.  The one entry of
\* 'relative-dev' is not the same for two rootdirs: its base URL is
\* relativized against the rootdir as well, and names the static js directory.
C7_RefsNameSelectedAssets ==
    (Returned /\ ret.resources \in RelativeModes) =>
        LET dev == ret.resources = S_relative \o S_dev
            base == BaseOf(ret.rootdir)
            v == ret.value
        IN  /\ Len(v.js_files) = Len(SelectedJs(dev))
            /\ Len(v.css_files) = Len(SelectedCss(dev))
            /\ \A i \in 1..Len(v.js_files) :
                   ~isabs(v.js_files[i]) /\ Resolve(base, v.js_files[i]) = SelectedJs(dev)[i]
            /\ \A i \in 1..Len(v.css_files) :
                   ~isabs(v.css_files[i]) /\ Resolve(base, v.css_files[i]) = SelectedCss(dev)[i]
            /\ v.raw_css = <<>>
            /\ v.js_wrapper.dev = dev
            /\ Len(v.raw_js) = IF dev THEN 1 ELSE 0
            /\ dev => /\ IsBootstrap(v.raw_js[1])
                      /\ NamesStaticJs(SubSeq(v.raw_js[1], 2, Len(v.raw_js[1]) - 1), base)

C7_Witness ==
    /\ Returned
    /\ ret.resources = S_relative
    /\ ret.rootdir = Str(<<"/", "a", "/", "b">>)
    /\ ret.value.js_files =
           << <<".", ".", "/", ".", ".", "/", "pkg", "/", "bokeh", "/", "server", "/",
                "static", "/", "js", "/", "bokeh", ".", "min", ".", "js">> >>

(***************************************************************************)
(* Properties of save and dumps (SpecSave, SpecRender) and view (SpecView).*)
(***************************************************************************)
\* the argument pairs get_resources rejects with ValueError
IllegalArgs(resources, rootdir_) ==
    \/ resources \notin FiveModes
    \/ resources \notin RelativeModes /\ ~rootdir_.isNone /\ rootdir_.s # <<>>

SubstId(text, id) ==
    [i \in 1..Len(text) |-> IF text[i] = id THEN "<elementid>" ELSE text[i]]

\* the document with every occurrence of the element identifier blanked
WithoutId(doc, id) ==
    [doc EXCEPT
        !.js_snippets = [i \in 1..Len(doc.js_snippets) |-> SubstId(doc.js_snippets[i], id)],
        !.html_snippets = [i \in 1..Len(doc.html_snippets) |->
                              SubstId(doc.html_snippets[i], id)]]

C9_SnippetsInAppendOrder ==
    [][/\ ret'.op = "raw_js_snippets" =>
             raw_js_objs' = raw_js_objs \o <<ret'.obj>>
       /\ ret'.op = "dumps" => raw_js_objs' = raw_js_objs
       /\ (ret'.op = "dumps" /\ ret'.raised = "None") =>
             /\ Len(ret'.value.html_snippets) = 1 + Len(raw_js_objs)
             /\ ret'.value.html_snippets[1] = <<"plots.html", ret'.elementid>>
             /\ \A i \in 1..Len(raw_js_objs) :
                    ret'.value.html_snippets[i + 1] = <<"raw", raw_js_objs[i]>>]_vars

C9_Witness ==
    /\ ret.op = "dumps"
    /\ ret.raised = "None"
    /\ raw_js_objs = <<"c2", "c1">>
    /\ ret.value.html_snippets[2] = <<"raw", "c2">>
    /\ ret.value.html_snippets[3] = <<"raw", "c1">>

\* C10: view lets only SystemExit and KeyboardInterrupt reach the caller:
\* a failed import, a failure of webbrowser.open and an unrecognised value of
\* new are discarded, and view leaves the session and the files as they were.
C10_ViewSwallowsAllButAborts ==
    [][ret'.op = "view" =>
          /\ ret'.raised \in {"None", "SystemExit", "KeyboardInterrupt"}
          /\ ret'.new \notin {"False", "window", "tab"} => ret'.raised = "None"
          /\ ret'.opened.called =>
                 ret'.raised = IF ret'.open_exc \in {"SystemExit", "KeyboardInterrupt"}
                               THEN ret'.open_exc ELSE "None"
          /\ UNCHANGED <<title, filename, raw_js_objs, next_id, missing, files>>]_vars

C10_Witness ==
    /\ ret.op = "view"
    /\ ret.new = "bogus"
    /\ ret.import_exc = "None"
    /\ ret.raised = "None"
    /\ ~ret.opened.called
    /\ raw_js_objs # <<>>

====
